---- MODULE Spec2Model ----
(***************************************************************************)
(* Model of src/components/Queue.tsx (QueuePage): the React component that *)
(* keeps an in-memory waitlist, lets the session join it under a parsed    *)
(* name and leave it again, and derives position and estimated wait time.  *)
(*                                                                         *)
(* JavaScript strings are modelled as sequences of one-character strings,  *)
(* so that trim, split, charAt, toUpperCase and template formatting are    *)
(* computed character by character.                                        *)
(***************************************************************************)
EXTENDS Integers, Sequences, FiniteSets, TLC

VARIABLES
    userName,         \* useState(''): the text of the name input
    userFirstName,    \* useState(''): first name stored after a join
    userLastInitial,  \* useState(''): last initial stored after a join
    isInQueue,        \* useState(false)
    showAddForm,      \* useState(false)
    formError,        \* useState(''): error text under the input
    queueList,        \* useState<QueueMember[]>([...seed...])
    now,              \* the wall clock read by new Date(), in minutes
    usedIds,          \* history: every id ever given to a member
    rawName,          \* parse harness: the raw input being parsed
    parsed,           \* parse harness: the outcome of parsing rawName
    waitPosition,     \* wait-time harness: the position passed in
    waitText          \* wait-time harness: the string returned

queueVars == <<userName, userFirstName, userLastInitial, isInQueue,
               showAddForm, formError, queueList, now, usedIds>>
harnessVars == <<rawName, parsed, waitPosition, waitText>>
vars == <<userName, userFirstName, userLastInitial, isInQueue,
          showAddForm, formError, queueList, now, usedIds,
          rawName, parsed, waitPosition, waitText>>

---------------------------------------------------------------------------
(* Bounds of the model *)

\* longest input enumerated exhaustively over Alphabet
MaxLen == 3
\* minutes the clock may advance
MaxTime == 2
\* largest position handed to calculateEstimatedWaitTime
MaxPosition == 60

---------------------------------------------------------------------------
(* Characters and strings *)

Space == " "
Tab == "\t"
\* U+00DF, a letter whose upper-casing is two characters long
Eszett == "ß"

\* the characters String.prototype.trim strips, within the alphabet
WhiteSpace == {Space, Tab}

Alphabet == {"a", "B", Space, Tab, Eszett}

LowerCase == <<"a", "b", "c", "d", "e", "f", "g", "h", "i", "j", "k", "l", "m",
               "n", "o", "p", "q", "r", "s", "t", "u", "v", "w", "x", "y", "z">>
UpperCase == <<"A", "B", "C", "D", "E", "F", "G", "H", "I", "J", "K", "L", "M",
               "N", "O", "P", "Q", "R", "S", "T", "U", "V", "W", "X", "Y", "Z">>

\* String.prototype.toUpperCase on one character: a string of one or more characters
upperChar(c) ==
    IF c = Eszett THEN <<"S", "S">>
    ELSE IF \E i \in DOMAIN LowerCase : LowerCase[i] = c
         THEN <<UpperCase[CHOOSE i \in DOMAIN LowerCase : LowerCase[i] = c]>>
         ELSE <<c>>

RECURSIVE toUpperCase(_)
toUpperCase(s) ==
    IF s = <<>> THEN <<>> ELSE upperChar(Head(s)) \o toUpperCase(Tail(s))

\* String.prototype.charAt(0): the first character, or '' for the empty string
charAt0(s) == IF Len(s) > 0 THEN <<s[1]>> ELSE <<>>

RECURSIVE trimStart(_)
trimStart(s) ==
    IF s # <<>> /\ Head(s) \in WhiteSpace THEN trimStart(Tail(s)) ELSE s

RECURSIVE trimEnd(_)
trimEnd(s) ==
    IF s # <<>> /\ s[Len(s)] \in WhiteSpace
    THEN trimEnd(SubSeq(s, 1, Len(s) - 1))
    ELSE s

\* what leaving the input untrimmed would give
untrimmed(s) == s

\* String.prototype.trim
trim(s) == trimEnd(trimStart(s))

\* what a split on every whitespace character would give
RECURSIVE splitOnWhiteSpace(_)
splitOnWhiteSpace(s) ==
    IF \E i \in DOMAIN s : s[i] \in WhiteSpace
    THEN LET i == CHOOSE k \in DOMAIN s :
                      /\ s[k] \in WhiteSpace
                      /\ \A j \in 1..(k - 1) : s[j] \notin WhiteSpace
         IN <<SubSeq(s, 1, i - 1)>> \o splitOnWhiteSpace(SubSeq(s, i + 1, Len(s)))
    ELSE <<s>>

\* String.prototype.split(' '): cut at every single space character
RECURSIVE split(_)
split(s) ==
    IF \E i \in DOMAIN s : s[i] = Space
    THEN LET i == CHOOSE k \in DOMAIN s :
                      /\ s[k] = Space
                      /\ \A j \in 1..(k - 1) : s[j] # Space
         IN <<SubSeq(s, 1, i - 1)>> \o split(SubSeq(s, i + 1, Len(s)))
    ELSE <<s>>

\* const nameParts = userName.trim().split(' ')
nameParts(name) == split(trim(name))

\* const firstName = nameParts[0]
firstName(name) == nameParts(name)[1]

\* const lastInitial = nameParts.length > 1 ? last part .charAt(0).toUpperCase() : ''
lastInitial(name) ==
    IF Len(nameParts(name)) > 1
    THEN toUpperCase(charAt0(nameParts(name)[Len(nameParts(name))]))
    ELSE <<>>

\* every string over Alphabet of at most MaxLen characters
ShortInputs == UNION {[1..n -> Alphabet] : n \in 0..MaxLen}

\* full names as a person would type them
NamedInputs == {
    <<"J", "o", "h", "n", " ", "D", "o", "e">>,
    <<"j", "o", "h", "n", " ", "d", "o", "e">>,
    <<"J", "o", "h", "n", " ", "S", "m", "i", "t", "h">>,
    <<" ", "J", "a", "n", "e", " ", " ", "v", "a", "n", " ", "s", "t", "a", " ">>,
    <<"M", "i", "k", "e", "\t", "J">>,
    <<"A", "l", "i", "c", "e", " ", "B", "r", "o", "w", "n">>,
    <<"M", "a", "d", "o", "n", "n", "a">>,
    <<"a", " ", "\t", "B">> }

Inputs == ShortInputs \cup NamedInputs

---------------------------------------------------------------------------
(* Formatting *)

DigitChars == <<"0", "1", "2", "3", "4", "5", "6", "7", "8", "9">>

\* a non-negative integer interpolated into a template literal
RECURSIVE numberToString(_)
numberToString(n) ==
    IF n < 10 THEN <<DigitChars[n + 1]>>
    ELSE numberToString(n \div 10) \o <<DigitChars[(n % 10) + 1]>>

\* what printing the hours part unconditionally would give
calculateEstimatedWaitTimeAlwaysHours(p) ==
    LET estimatedMinutes == p * 5
        hours == estimatedMinutes \div 60
        minutes == estimatedMinutes % 60
    IN numberToString(hours) \o <<"h", " ">> \o numberToString(minutes) \o <<"m">>

calculateEstimatedWaitTime(p) ==
    LET estimatedMinutes == p * 5
        hours == estimatedMinutes \div 60
        minutes == estimatedMinutes % 60
    IN IF hours > 0
       THEN numberToString(hours) \o <<"h", " ">> \o numberToString(minutes) \o <<"m">>
       ELSE numberToString(minutes) \o <<"m">>

---------------------------------------------------------------------------
(* The queue *)

\* the strings held by the session's name fields before a join and after a leave
EmptyString == <<>>

ErrEmptyName == "Please enter your name"
ErrAlreadyQueued == "You are already in the queue"
NoError == ""

\* the initial queueList, built when the component mounts at time t
SeedQueue(t) == <<
    [id |-> 1, firstName |-> <<"J", "o", "h", "n">>, lastInitial |-> <<"D">>,
     joinedTime |-> t - 15],
    [id |-> 2, firstName |-> <<"J", "a", "n", "e">>, lastInitial |-> <<"S">>,
     joinedTime |-> t - 10],
    [id |-> 3, firstName |-> <<"M", "i", "k", "e">>, lastInitial |-> <<"J">>,
     joinedTime |-> t - 5] >>

\* Math.max(...values, 0)
mathMax0(values) ==
    CHOOSE v \in values \cup {0} : \A w \in values \cup {0} : w <= v

\* member.firstName === first && member.lastInitial === initial
sameMember(member, first, initial) ==
    member.firstName = first /\ member.lastInitial = initial

\* what testing the session's stored name instead of the parsed one would give
userExistsStoredName(list, first, initial) ==
    \E i \in DOMAIN list : sameMember(list[i], userFirstName, userLastInitial)

\* queueList.some(member => ...)
userExists(list, first, initial) ==
    \E i \in DOMAIN list : sameMember(list[i], first, initial)

\* what a member built with its two name fields swapped would be
newMemberSwapped(list, first, initial, t) ==
    [id |-> mathMax0({list[i].id : i \in DOMAIN list}) + 1,
     firstName |-> initial,
     lastInitial |-> first,
     joinedTime |-> t]

\* const newMember: QueueMember = {...}
newMember(list, first, initial, t) ==
    [id |-> mathMax0({list[i].id : i \in DOMAIN list}) + 1,
     firstName |-> first,
     lastInitial |-> initial,
     joinedTime |-> t]

\* what putting the new member first would give
prependMember(list, member) == <<member>> \o list

\* [...queueList, newMember]
appendMember(list, member) == list \o <<member>>

\* what a filter matching on the first name alone would give
RECURSIVE filterOutByFirstName(_, _, _)
filterOutByFirstName(list, first, initial) ==
    IF list = <<>> THEN <<>>
    ELSE IF Head(list).firstName = first
         THEN filterOutByFirstName(Tail(list), first, initial)
         ELSE <<Head(list)>> \o filterOutByFirstName(Tail(list), first, initial)

\* what a filter without the negation would give
RECURSIVE filterKeepMatching(_, _, _)
filterKeepMatching(list, first, initial) ==
    IF list = <<>> THEN <<>>
    ELSE IF sameMember(Head(list), first, initial)
         THEN <<Head(list)>> \o filterKeepMatching(Tail(list), first, initial)
         ELSE filterKeepMatching(Tail(list), first, initial)

\* queueList.filter(member => !(...))
RECURSIVE filterOut(_, _, _)
filterOut(list, first, initial) ==
    IF list = <<>> THEN <<>>
    ELSE IF sameMember(Head(list), first, initial)
         THEN filterOut(Tail(list), first, initial)
         ELSE <<Head(list)>> \o filterOut(Tail(list), first, initial)

\* the value of userPosition when no member matches (null)
NoPosition == 0

\* queueList.find(...) then queueList.indexOf(...) + 1, or null
userPositionOf(list, first, initial) ==
    IF \E i \in DOMAIN list : sameMember(list[i], first, initial)
    THEN CHOOSE i \in DOMAIN list :
             /\ sameMember(list[i], first, initial)
             /\ \A j \in 1..(i - 1) : ~sameMember(list[j], first, initial)
    ELSE NoPosition

\* the derived value of the current render
userPosition == userPositionOf(queueList, userFirstName, userLastInitial)

\* what rendering the Join Queue button unconditionally would give
joinButtonAlwaysRendered == TRUE

\* {!isInQueue ? <button>Join Queue</button> : null}
joinButtonRendered == ~isInQueue

\* {isInQueue && userPosition && (... <button>Leave Queue</button>)}
leaveButtonRendered == isInQueue /\ userPosition # NoPosition

InitQueue ==
    /\ userName = EmptyString
    /\ userFirstName = EmptyString
    /\ userLastInitial = EmptyString
    /\ isInQueue = FALSE
    /\ showAddForm = FALSE
    /\ formError = NoError
    /\ now = 0
    /\ queueList = SeedQueue(0)
    /\ usedIds = {1, 2, 3}

NotParsed == [outcome |-> "none"]

InitHarness ==
    /\ rawName = EmptyString
    /\ parsed = NotParsed
    /\ waitPosition = 1
    /\ waitText = EmptyString

Init == InitQueue /\ InitHarness

\* onClick={() => setShowAddForm(true)} of the Join Queue button
OpenAddForm ==
    /\ joinButtonRendered
    /\ showAddForm' = TRUE
    /\ UNCHANGED <<userName, userFirstName, userLastInitial, isInQueue,
                   formError, queueList, now, usedIds>>
    /\ UNCHANGED harnessVars

\* onChange of the name input
ChangeName ==
    /\ showAddForm
    /\ \E value \in Inputs : userName' = value
    /\ formError' = NoError
    /\ UNCHANGED <<userFirstName, userLastInitial, isInQueue, showAddForm,
                   queueList, now, usedIds>>
    /\ UNCHANGED harnessVars

\* onSubmit of the form
handleNameSubmit ==
    /\ showAddForm
    /\ IF trim(userName) = EmptyString
       THEN /\ formError' = ErrEmptyName
            /\ UNCHANGED <<userName, userFirstName, userLastInitial, isInQueue,
                           showAddForm, queueList, usedIds>>
       ELSE IF userExists(queueList, firstName(userName), lastInitial(userName))
       THEN /\ formError' = ErrAlreadyQueued
            /\ UNCHANGED <<userName, userFirstName, userLastInitial, isInQueue,
                           showAddForm, queueList, usedIds>>
       ELSE LET member == newMember(queueList, firstName(userName),
                                    lastInitial(userName), now)
            IN /\ userFirstName' = firstName(userName)
               /\ userLastInitial' = lastInitial(userName)
               /\ queueList' = appendMember(queueList, member)
               /\ usedIds' = usedIds \cup {member.id}
               /\ isInQueue' = TRUE
               /\ userName' = EmptyString
               /\ formError' = NoError
               /\ showAddForm' = FALSE
    /\ UNCHANGED now
    /\ UNCHANGED harnessVars

\* onClick of the Cancel button
CancelAddForm ==
    /\ showAddForm
    /\ showAddForm' = FALSE
    /\ formError' = NoError
    /\ userName' = EmptyString
    /\ UNCHANGED <<userFirstName, userLastInitial, isInQueue, queueList,
                   now, usedIds>>
    /\ UNCHANGED harnessVars

\* onClick of the Leave Queue button
handleRemoveFromQueue ==
    /\ leaveButtonRendered
    /\ queueList' = filterOut(queueList, userFirstName, userLastInitial)
    /\ isInQueue' = FALSE
    /\ userFirstName' = EmptyString
    /\ userLastInitial' = EmptyString
    /\ UNCHANGED <<userName, showAddForm, formError, now, usedIds>>
    /\ UNCHANGED harnessVars

\* the wall clock advances between two events
Tick ==
    /\ now < MaxTime
    /\ now' = now + 1
    /\ UNCHANGED <<userName, userFirstName, userLastInitial, isInQueue,
                   showAddForm, formError, queueList, usedIds>>
    /\ UNCHANGED harnessVars

Next ==
    \/ OpenAddForm
    \/ ChangeName
    \/ handleNameSubmit
    \/ CancelAddForm
    \/ handleRemoveFromQueue
    \/ Tick

Spec == Init /\ [][Next]_vars

---------------------------------------------------------------------------
(* Name parsing on its own: every input is parsed once *)

InitParse ==
    /\ InitQueue
    /\ rawName \in Inputs
    /\ parsed = NotParsed
    /\ waitPosition = 1
    /\ waitText = EmptyString

\* lines 41-51 of handleNameSubmit applied to rawName
ParseName ==
    /\ parsed = NotParsed
    /\ parsed' = IF trim(rawName) = EmptyString
                 THEN [outcome |-> "ValidationError"]
                 ELSE [outcome |-> "ok",
                       firstName |-> firstName(rawName),
                       lastInitial |-> lastInitial(rawName)]
    /\ UNCHANGED <<rawName, waitPosition, waitText>>
    /\ UNCHANGED queueVars

NextParse == ParseName

SpecParse == InitParse /\ [][NextParse]_vars

---------------------------------------------------------------------------
(* The wait estimate on its own: every position is formatted once *)

InitWait ==
    /\ InitQueue
    /\ rawName = EmptyString
    /\ parsed = NotParsed
    /\ waitPosition \in 1..MaxPosition
    /\ waitText = EmptyString

\* calculateEstimatedWaitTime applied to waitPosition
EstimateWait ==
    /\ waitText = EmptyString
    /\ waitText' = calculateEstimatedWaitTime(waitPosition)
    /\ UNCHANGED <<rawName, parsed, waitPosition>>
    /\ UNCHANGED queueVars

NextWait == EstimateWait

SpecWait == InitWait /\ [][NextWait]_vars

---------------------------------------------------------------------------
(* Properties *)

John == <<"J", "o", "h", "n">>
AliceBrown == <<"A", "l", "i", "c", "e", " ", "B", "r", "o", "w", "n">>
Madonna == <<"M", "a", "d", "o", "n", "n", "a">>
MikeTabJ == <<"M", "i", "k", "e", "\t", "J">>

\* the members of a list without their join times
Identities(list) ==
    [i \in DOMAIN list |-> <<list[i].id, list[i].firstName, list[i].lastInitial>>]

SeedIdentities ==
    << <<1, John, <<"D">> >>,
       <<2, <<"J", "a", "n", "e">>, <<"S">> >>,
       <<3, <<"M", "i", "k", "e">>, <<"J">> >> >>

\* the input consists of whitespace only (or of nothing)
WhitespaceOnly(name) == \A i \in DOMAIN name : name[i] \in WhiteSpace

\* some member of the list carries the identity key parsed from the input
ParsedKeyPresent(list, name) ==
    \E i \in DOMAIN list :
        /\ list[i].firstName = firstName(name)
        /\ list[i].lastInitial = lastInitial(name)

\* C1: no two members present at the same time have the same
\* (firstName, lastInitial) pair, compared exactly.
C1_UniqueIdentityKeys ==
    \A i, j \in DOMAIN queueList :
        (/\ queueList[i].firstName = queueList[j].firstName
         /\ queueList[i].lastInitial = queueList[j].lastInitial) => i = j

\* 'john doe' has joined beside the seed member John D: the keys differ in case
C1_Witness ==
    /\ Len(queueList) = 4
    /\ 4 \in usedIds
    /\ queueList[4].firstName = <<"j", "o", "h", "n">>
    /\ queueList[4].lastInitial = <<"D">>

\* C2 (as claimed): an id once given to a member is never given to a later
\* member, also after the earlier member has left.
C2_IdsNeverReused ==
    [][\A i \in DOMAIN queueList' :
           i > Len(queueList) => queueList'[i].id \notin usedIds]_vars

\* C3: a submission that is empty or whitespace-only is rejected with
\* 'Please enter your name', one whose parsed key is already present with
\* 'You are already in the queue', and either leaves the member list,
\* isInQueue and the stored identity key as they were.
C3_FailedJoinDoesNotMutate ==
    [][handleNameSubmit =>
         /\ WhitespaceOnly(userName) =>
               /\ formError' = ErrEmptyName
               /\ UNCHANGED <<queueList, isInQueue, userFirstName, userLastInitial>>
         /\ (~WhitespaceOnly(userName) /\ ParsedKeyPresent(queueList, userName)) =>
               /\ formError' = ErrAlreadyQueued
               /\ UNCHANGED <<queueList, isInQueue, userFirstName, userLastInitial>>
      ]_vars

\* a whitespace-only input stands rejected
C3_Witness ==
    /\ formError = ErrEmptyName
    /\ userName # EmptyString
    /\ Len(queueList) = 3

\* C4: a leave deletes exactly the one member matching the session's key,
\* keeps the others in order, and the position of the removed key is then none.
C4_LeaveRemovesExactlyOne ==
    [][handleRemoveFromQueue =>
         /\ Len(queueList') = Len(queueList) - 1
         /\ \E i \in DOMAIN queueList :
               /\ queueList[i].firstName = userFirstName
               /\ queueList[i].lastInitial = userLastInitial
               /\ queueList' = SubSeq(queueList, 1, i - 1)
                                 \o SubSeq(queueList, i + 1, Len(queueList))
         /\ userPositionOf(queueList', userFirstName, userLastInitial) = NoPosition
      ]_vars

\* the session has joined and left again
C4_Witness ==
    /\ ~isInQueue
    /\ usedIds = {1, 2, 3, 4}
    /\ Len(queueList) = 3
    /\ ~showAddForm

\* C5: a successful join appends the new member at the end, leaves the
\* existing members as they were, gives it id = max(ids present, 0) + 1, and
\* its position is the new list length; joining 'Alice Brown' on the seeded
\* list gives id 4, position 4 and wait '20m'.
C5_JoinAppends ==
    [][Len(queueList') > Len(queueList) =>
         LET n == Len(queueList')
             member == queueList'[n]
         IN /\ n = Len(queueList) + 1
            /\ \A i \in DOMAIN queueList : queueList'[i] = queueList[i]
            /\ member.firstName = firstName(userName)
            /\ member.lastInitial = lastInitial(userName)
            /\ \A i \in DOMAIN queueList : queueList[i].id < member.id
            /\ \/ member.id = 1
               \/ \E i \in DOMAIN queueList : queueList[i].id = member.id - 1
            /\ userPositionOf(queueList', userFirstName', userLastInitial') = n
            /\ (userName = AliceBrown /\ Identities(queueList) = SeedIdentities) =>
                  /\ member.id = 4
                  /\ member.firstName = <<"A", "l", "i", "c", "e">>
                  /\ member.lastInitial = <<"B">>
                  /\ userPositionOf(queueList', userFirstName', userLastInitial') = 4
                  /\ calculateEstimatedWaitTime(4) = <<"2", "0", "m">>
      ]_vars

\* Alice Brown has joined the seeded list
C5_Witness ==
    /\ isInQueue
    /\ Len(queueList) = 4
    /\ queueList[4].firstName = <<"A", "l", "i", "c", "e">>
    /\ userPosition = 4

\* C6: the session starts out of the queue; joins and leaves alternate, a
\* join only out of the queue and a leave only in it; and while isInQueue
\* holds the add form is closed, so no submission can occur.
C6_SessionCycle ==
    /\ ~isInQueue
    /\ [](isInQueue => ~showAddForm)
    /\ [][/\ Len(queueList') > Len(queueList) => (~isInQueue /\ isInQueue')
          /\ Len(queueList') < Len(queueList) => (isInQueue /\ ~isInQueue')
          /\ isInQueue' # isInQueue => Len(queueList') # Len(queueList)
          /\ handleNameSubmit => ~isInQueue
         ]_vars

\* a second cycle has begun: the form is open again after a join and a leave
C6_Witness ==
    /\ ~isInQueue
    /\ showAddForm
    /\ 4 \in usedIds

C8_WaitTimeFormat ==
    waitText # EmptyString =>
        LET total == waitPosition * 5
        IN /\ waitText =
                 IF total < 60
                 THEN numberToString(total) \o <<"m">>
                 ELSE numberToString(total \div 60) \o <<"h", " ">>
                        \o numberToString(total % 60) \o <<"m">>
           /\ waitPosition = 1 => waitText = <<"5", "m">>
           /\ waitPosition = 12 => waitText = <<"1", "h", " ", "0", "m">>
           /\ waitPosition = 13 => waitText = <<"1", "h", " ", "5", "m">>

\* position 13 has been formatted
C8_Witness ==
    /\ waitPosition = 13
    /\ waitText = <<"1", "h", " ", "5", "m">>

\* C9: whenever isInQueue holds, the list contains a member whose key is the
\* session's stored key, so a leave always removes a member.
C9_LeaveTargetPresent ==
    isInQueue =>
        \E i \in DOMAIN queueList :
            /\ queueList[i].firstName = userFirstName
            /\ queueList[i].lastInitial = userLastInitial

\* the session is queued under a single-word name and may leave
C9_Witness ==
    /\ isInQueue
    /\ leaveButtonRendered
    /\ userFirstName = Madonna
    /\ userLastInitial = EmptyString

\* C10: the three seed members stay at positions 1, 2 and 3 with ids 1, 2
\* and 3, and the list is those three, or those three followed by the
\* session's own member.
C10_SeedsStay ==
    /\ Len(queueList) \in {3, 4}
    /\ SubSeq(queueList, 1, 3) = SeedQueue(0)
    /\ Len(queueList) = 4 =>
          /\ isInQueue
          /\ queueList[4].firstName = userFirstName
          /\ queueList[4].lastInitial = userLastInitial
    /\ Len(queueList) = 3 => ~isInQueue

\* the session has joined as a second John (John S) behind the three seeds
C10_Witness ==
    /\ Len(queueList) = 4
    /\ queueList[4].firstName = John
    /\ queueList[4].lastInitial = <<"S">>

====
